---- MODULE Spec2Model ----
(***************************************************************************)
(* A model of caddypy's Caddy client (src/caddypy/caddy.py).               *)
(*                                                                         *)
(* Python strings and bytes are sequences of one-character strings, so     *)
(* that formatting, lstrip, json.loads and json.dumps are computed         *)
(* character by character.  A Python value is a record [t, v]: t is the    *)
(* name of its type and v its content.                                     *)
(***************************************************************************)
EXTENDS Integers, Sequences, FiniteSets, TLC

(***************************************************************************)
(* Python values                                                           *)
(***************************************************************************)
PyNone == [t |-> "NoneType", v |-> <<>>]
PyStr(chars) == [t |-> "str", v |-> chars]
PyBytes(chars) == [t |-> "bytes", v |-> chars]
PyInt(n) == [t |-> "int", v |-> n]
PyBool(b) == [t |-> "bool", v |-> b]
PyList(items) == [t |-> "list", v |-> items]
\* A dict is its items in insertion order: a sequence of <<key chars, value>>.
PyDict(items) == [t |-> "dict", v |-> items]

\* Python truthiness, as `if path`, `not config_id`, `if self.headers_origin`.
Truthy(x) ==
    CASE x.t = "NoneType" -> FALSE
      [] x.t = "bool" -> x.v
      [] x.t = "int" -> x.v # 0
      [] OTHER -> Len(x.v) > 0

\* a == b on Python values (the type is compared first).
PyEq(a, b) == a.t = b.t /\ a.v = b.v

(***************************************************************************)
(* str(int), as '{}'.format(port) and json.dumps of an int compute it      *)
(***************************************************************************)
Digits == <<"0", "1", "2", "3", "4", "5", "6", "7", "8", "9">>

RECURSIVE NatToStr(_)
NatToStr(n) ==
    IF n < 10 THEN <<Digits[n + 1]>>
    ELSE NatToStr(n \div 10) \o <<Digits[(n % 10) + 1]>>

IntToStr(n) == IF n < 0 THEN <<"-">> \o NatToStr(0 - n) ELSE NatToStr(n)

\* '{}'.format(x): str(x) of a str is the str itself.
Format(x) ==
    CASE x.t = "str" -> x.v
      [] x.t = "int" -> IntToStr(x.v)
      [] x.t = "NoneType" -> <<"N", "o", "n", "e">>
      [] x.t = "bool" -> IF x.v THEN <<"T", "r", "u", "e">>
                         ELSE <<"F", "a", "l", "s", "e">>

(***************************************************************************)
(* str.lstrip('/'): every leading '/' is removed                           *)
(***************************************************************************)
\* The mutant strips one leading '/' only.
lstrip_mutant(s) ==
    IF Len(s) > 0 /\ Head(s) = "/" THEN Tail(s) ELSE s

RECURSIVE lstrip(_)
lstrip(s) ==
    IF Len(s) > 0 /\ Head(s) = "/" THEN lstrip(Tail(s)) ELSE s

(***************************************************************************)
(* json.loads, for str and bytes input.  The JSON subset: null, true,      *)
(* false, integers, strings (escapes \" \\ \/ \n \t \r \f), arrays and     *)
(* objects, with whitespace where JSON allows it.  Fractions, exponents,   *)
(* NaN/Infinity and \b, \uXXXX escapes are not modelled; no text used      *)
(* below contains them.                                                    *)
(***************************************************************************)
Whitespace == {" ", "\t", "\n", "\r"}

ParseFail == [ok |-> FALSE, val |-> PyNone, end |-> 0]
ParseOk(val, end) == [ok |-> TRUE, val |-> val, end |-> end]

\* The first position at or after i that holds no whitespace.
RECURSIVE SkipWs(_, _)
SkipWs(s, i) ==
    IF i <= Len(s) /\ s[i] \in Whitespace THEN SkipWs(s, i + 1) ELSE i

\* Does s hold the characters of word from position i on?
StartsAt(s, i, word) ==
    /\ i + Len(word) - 1 <= Len(s)
    /\ SubSeq(s, i, i + Len(word) - 1) = word

Unescape(c) ==
    CASE c = "n" -> "\n"
      [] c = "t" -> "\t"
      [] c = "r" -> "\r"
      [] c = "f" -> "\f"
      [] OTHER -> c

\* json.decoder.scanstring: i is the position after the opening quote.
RECURSIVE ScanString(_, _, _)
ScanString(s, i, acc) ==
    IF i > Len(s) THEN ParseFail
    ELSE IF s[i] = "\"" THEN ParseOk(PyStr(acc), i + 1)
    ELSE IF s[i] = "\\" THEN
        IF i + 1 <= Len(s) /\ s[i + 1] \in {"\"", "\\", "/", "n", "t", "r", "f"}
        THEN ScanString(s, i + 2, Append(acc, Unescape(s[i + 1])))
        ELSE ParseFail
    ELSE IF s[i] \in {"\t", "\n", "\r", "\f"} THEN ParseFail
    ELSE ScanString(s, i + 1, Append(acc, s[i]))

IsDigit(c) == c \in {"0", "1", "2", "3", "4", "5", "6", "7", "8", "9"}
DigitVal(c) == CHOOSE d \in 0..9 : Digits[d + 1] = c

\* The digits from position i on: [val, end].
RECURSIVE ScanDigits(_, _, _)
ScanDigits(s, i, acc) ==
    IF i <= Len(s) /\ IsDigit(s[i])
    THEN ScanDigits(s, i + 1, acc * 10 + DigitVal(s[i]))
    ELSE [val |-> acc, end |-> i]

\* NUMBER_RE's integer part: -?(0|[1-9][0-9]*)
ScanNumber(s, i) ==
    LET neg == s[i] = "-"
        j == IF neg THEN i + 1 ELSE i
    IN  IF j > Len(s) \/ ~IsDigit(s[j]) THEN ParseFail
        ELSE IF s[j] = "0" THEN ParseOk(PyInt(0), j + 1)
        ELSE LET d == ScanDigits(s, j, 0)
             IN  ParseOk(PyInt(IF neg THEN 0 - d.val ELSE d.val), d.end)

\* dict(pairs): a repeated key keeps its place and takes the later value.
DictPut(items, k, val) ==
    IF \E n \in 1..Len(items) : items[n][1] = k
    THEN [n \in 1..Len(items) |->
             IF items[n][1] = k THEN <<k, val>> ELSE items[n]]
    ELSE Append(items, <<k, val>>)

RECURSIVE ScanOnce(_, _)
RECURSIVE ArrayItems(_, _, _)
RECURSIVE ObjectItems(_, _, _)

\* json.scanner.py_make_scanner._scan_once: the value that starts at i.
ScanOnce(s, i) ==
    IF i > Len(s) THEN ParseFail
    ELSE IF s[i] = "\"" THEN ScanString(s, i + 1, <<>>)
    ELSE IF s[i] = "{" THEN
        LET j == SkipWs(s, i + 1)
        IN  IF j > Len(s) THEN ParseFail
            ELSE IF s[j] = "}" THEN ParseOk(PyDict(<<>>), j + 1)
            ELSE IF s[j] = "\"" THEN ObjectItems(s, j, <<>>)
            ELSE ParseFail
    ELSE IF s[i] = "[" THEN
        LET j == SkipWs(s, i + 1)
        IN  IF j > Len(s) THEN ParseFail
            ELSE IF s[j] = "]" THEN ParseOk(PyList(<<>>), j + 1)
            ELSE ArrayItems(s, j, <<>>)
    ELSE IF StartsAt(s, i, <<"n", "u", "l", "l">>) THEN ParseOk(PyNone, i + 4)
    ELSE IF StartsAt(s, i, <<"t", "r", "u", "e">>)
        THEN ParseOk(PyBool(TRUE), i + 4)
    ELSE IF StartsAt(s, i, <<"f", "a", "l", "s", "e">>)
        THEN ParseOk(PyBool(FALSE), i + 5)
    ELSE IF IsDigit(s[i]) \/ s[i] = "-" THEN ScanNumber(s, i)
    ELSE ParseFail

\* json.decoder.JSONArray's loop: i is the position of the next item.
ArrayItems(s, i, acc) ==
    LET r == ScanOnce(s, i)
        j == SkipWs(s, r.end)
    IN  IF ~r.ok \/ j > Len(s) THEN ParseFail
        ELSE IF s[j] = "]" THEN ParseOk(PyList(Append(acc, r.val)), j + 1)
        ELSE IF s[j] = ","
            THEN ArrayItems(s, SkipWs(s, j + 1), Append(acc, r.val))
        ELSE ParseFail

\* json.decoder.JSONObject's loop: i is the position of a key's opening quote.
ObjectItems(s, i, acc) ==
    LET k == ScanString(s, i + 1, <<>>)
        c == SkipWs(s, k.end)
    IN  IF ~k.ok \/ c > Len(s) \/ s[c] # ":" THEN ParseFail
        ELSE LET r == ScanOnce(s, SkipWs(s, c + 1))
                 j == SkipWs(s, r.end)
                 items == DictPut(acc, k.val.v, r.val)
             IN  IF ~r.ok \/ j > Len(s) THEN ParseFail
                 ELSE IF s[j] = "}" THEN ParseOk(PyDict(items), j + 1)
                 ELSE IF s[j] = "," THEN
                     LET q == SkipWs(s, j + 1)
                     IN  IF q <= Len(s) /\ s[q] = "\""
                         THEN ObjectItems(s, q, items)
                         ELSE ParseFail
                 ELSE ParseFail

\* The outcome of a call: a value returned, or an exception raised.
Returns(val) == [kind |-> "return", exc |-> "", val |-> val]
Raises(exc) == [kind |-> "raise", exc |-> exc, val |-> PyNone]
NoOutcome == [kind |-> "none", exc |-> "", val |-> PyNone]

\* json.loads(x): TypeError unless x is str or bytes; bytes are decoded (the
\* characters here are ASCII); JSONDecodeError unless the whole text is one
\* JSON value.
json_loads(x) ==
    IF x.t \notin {"str", "bytes"} THEN Raises("TypeError")
    ELSE LET r == ScanOnce(x.v, SkipWs(x.v, 1))
         IN  IF r.ok /\ SkipWs(x.v, r.end) = Len(x.v) + 1
             THEN Returns(r.val)
             ELSE Raises("JSONDecodeError")

(***************************************************************************)
(* json.dumps with its default separators                                  *)
(***************************************************************************)
Escape(c) ==
    CASE c = "\"" -> <<"\\", "\"">>
      [] c = "\\" -> <<"\\", "\\">>
      [] c = "\n" -> <<"\\", "n">>
      [] c = "\t" -> <<"\\", "t">>
      [] c = "\r" -> <<"\\", "r">>
      [] c = "\f" -> <<"\\", "f">>
      [] OTHER -> <<c>>

RECURSIVE EscapeAll(_)
EscapeAll(s) ==
    IF s = <<>> THEN <<>> ELSE Escape(Head(s)) \o EscapeAll(Tail(s))

Quoted(s) == <<"\"">> \o EscapeAll(s) \o <<"\"">>

RECURSIVE Encode(_)
RECURSIVE EncodeList(_)
RECURSIVE EncodeDict(_)

\* The text of one value.
Encode(x) ==
    CASE x.t = "str" -> Quoted(x.v)
      [] x.t = "int" -> IntToStr(x.v)
      [] x.t = "bool" -> IF x.v THEN <<"t", "r", "u", "e">>
                         ELSE <<"f", "a", "l", "s", "e">>
      [] x.t = "NoneType" -> <<"n", "u", "l", "l">>
      [] x.t = "list" -> <<"[">> \o EncodeList(x.v) \o <<"]">>
      [] x.t = "dict" -> <<"{">> \o EncodeDict(x.v) \o <<"}">>

EncodeList(items) ==
    IF items = <<>> THEN <<>>
    ELSE IF Len(items) = 1 THEN Encode(items[1])
    ELSE Encode(items[1]) \o <<",", " ">> \o EncodeList(Tail(items))

EncodeDict(items) ==
    IF items = <<>> THEN <<>>
    ELSE LET one == Quoted(items[1][1]) \o <<":", " ">> \o Encode(items[1][2])
         IN  IF Len(items) = 1 THEN one
             ELSE one \o <<",", " ">> \o EncodeDict(Tail(items))

\* json.dumps(x): a str.
json_dumps(x) == PyStr(Encode(x))

(***************************************************************************)
(* The inputs: clients, paths, identifiers, configurations, responses      *)
(***************************************************************************)
MaxPathLen == 2

DefaultPort == 2019

http == <<"h", "t", "t", "p">>
https == <<"h", "t", "t", "p", "s">>
example_com == <<"e", "x", "a", "m", "p", "l", "e", ".", "c", "o", "m">>
localhost == <<"l", "o", "c", "a", "l", "h", "o", "s", "t">>

Protocols == {http, https}
Hosts == {example_com, localhost}
Ports == {PyInt(DefaultPort), PyInt(80)}
Origins == {PyNone, PyStr(<<"o">>)}

SeqsUpTo(S, n) == UNION {[1..k -> S] : k \in 0..n}

PathChars == {"/", "a"}
host_0 == <<"h", "o", "s", "t", "/", "0">>
Paths ==
    {PyNone, PyStr(host_0)} \cup {PyStr(s) : s \in SeqsUpTo(PathChars, MaxPathLen)}

ConfigIds == {PyNone, PyStr(<<>>), PyStr(<<"h", "o", "s", "t">>)}

a_1 == PyDict(<< << <<"a">>, PyInt(1) >> >>)
a_1_text == <<"{", "\"", "a", "\"", ":", " ", "1", "}">>
not_json == <<"n", "o", "t", " ", "j", "s", "o", "n">>
plain_text == <<"p", "l", "a", "i", "n", " ", "t", "e", "x", "t">>

Configs ==
    { a_1, PyDict(<<>>),
      PyStr(a_1_text), PyStr(<<"[", "1", "]">>), PyStr(<<"1">>),
      PyStr(<<"\"", "1", "\"">>), PyStr(<<"n", "u", "l", "l">>),
      PyStr(not_json), PyStr(<<>>),
      PyBytes(a_1_text), PyBytes(not_json),
      PyInt(5), PyBool(TRUE), PyNone, PyList(<<PyInt(1)>>) }

Statuses == {200, 304, 404, 500}
Contents == {PyBytes(a_1_text), PyBytes(plain_text)}

(***************************************************************************)
(* The state: the client's fields, and the frame of the call in progress   *)
(***************************************************************************)
VARIABLES
    host, port, protocol, headers_origin,   \* the Caddy object's fields
    pc,          \* where the call in progress stands ("idle": no call)
    op,          \* the method called
    config,      \* its config argument, as the caller gave it
    path,        \* the path handed to _generate_url_by_path
    config_id,   \* the config_id handed to _generate_url_by_path
    raw,         \* config()'s raw argument
    data,        \* the data handed to _execute
    _url,        \* the url handed to _execute
    sent,        \* the requests this call has issued, in order
    res,         \* the response received
    result       \* what the call returned or raised

vars == <<host, port, protocol, headers_origin, pc, op, config, path,
          config_id, raw, data, _url, sent, res, result>>

self_vars == <<host, port, protocol, headers_origin>>

NoResponse == [status_code |-> 0, content |-> PyBytes(<<>>)]

(***************************************************************************)
(* Caddy._generate_url and Caddy._generate_url_by_path                     *)
(***************************************************************************)
_generate_url ==
    protocol \o <<":", "/", "/">> \o host \o <<":">> \o Format(port) \o <<"/">>

\* The mutant leaves out the 'config/' of the root configuration.
_generate_url_by_path_mutant(p, id) ==
    LET u0 == _generate_url
        u2 == IF Truthy(id)
              THEN u0 \o <<"i", "d", "/">> \o Format(id)
              ELSE u0
    IN  IF Truthy(p) THEN u2 \o <<"/">> \o lstrip(p.v) ELSE u2

_generate_url_by_path(p, id) ==
    LET u0 == _generate_url
        u1 == IF ~Truthy(p) /\ ~Truthy(id)
              THEN u0 \o <<"c", "o", "n", "f", "i", "g", "/">>
              ELSE u0
        u2 == IF Truthy(id)
              THEN u1 \o <<"i", "d", "/">> \o Format(id)
              ELSE u1
    IN  IF Truthy(p) THEN u2 \o <<"/">> \o lstrip(p.v) ELSE u2

(***************************************************************************)
(* Caddy._prepare_config_data                                              *)
(***************************************************************************)
\* The mutant hands a dict to json.loads like everything else.
_prepare_config_data_mutant(c) ==
    LET r == json_loads(c)
    IN  IF r.kind = "return" THEN Returns(r.val)
        ELSE IF r.exc = "JSONDecodeError"
            THEN IF c.t # "str" THEN Raises("JSONDecodeError")
                 ELSE Returns(c)
        ELSE r

_prepare_config_data(c) ==
    IF c.t = "dict" THEN Returns(c)
    ELSE LET r == json_loads(c)
         IN  IF r.kind = "return" THEN Returns(r.val)
             ELSE IF r.exc = "JSONDecodeError"
                 THEN IF c.t # "str" THEN Raises("JSONDecodeError")
                      ELSE Returns(c)
             ELSE r

(***************************************************************************)
(* Caddy._execute, up to the request                                       *)
(***************************************************************************)
\* The verb each method passes to _execute (GET is its default).
Method(o) ==
    CASE o = "config" -> "GET"
      [] o = "load" -> "POST"
      [] o = "add" -> "PUT"
      [] o = "update" -> "PATCH"
      [] o = "stop" -> "POST"
      [] o = "delete" -> "DELETE"

Headers ==
    {<<"Content-Type", "application/json">>}
        \cup (IF Truthy(headers_origin)
              THEN {<<"Origin", headers_origin.v>>} ELSE {})

\* The mutant serializes a dict only and sends a str as it is.
RequestData_mutant(d) == IF d.t = "dict" THEN json_dumps(d) ELSE d

\* data = json.dumps(data) if type(data) in [dict, str] else data
RequestData(d) == IF d.t \in {"dict", "str"} THEN json_dumps(d) ELSE d

\* requests.Response.raise_for_status raises HTTPError for 400 <= status < 600.
raise_for_status(r) == 400 <= r.status_code /\ r.status_code < 600

(***************************************************************************)
(* The specification                                                       *)
(***************************************************************************)
Init ==
    /\ host \in Hosts
    /\ port \in Ports
    /\ protocol \in Protocols
    /\ headers_origin \in Origins
    /\ pc = "idle"
    /\ op = "none"
    /\ config = PyNone
    /\ path = PyNone
    /\ config_id = PyNone
    /\ raw = FALSE
    /\ data = PyNone
    /\ _url = <<>>
    /\ sent = <<>>
    /\ res = NoResponse
    /\ result = NoOutcome

\* Each method is entered with its arguments bound; load, stop and delete fix
\* the path or the config_id they hand to _generate_url_by_path.
config_call ==
    /\ pc = "idle"
    /\ \E p \in Paths, id \in ConfigIds, r \in BOOLEAN :
           /\ path' = p
           /\ config_id' = id
           /\ raw' = r
    /\ op' = "config"
    /\ pc' = "resolve"
    /\ UNCHANGED <<self_vars, config, data, _url, sent, res, result>>

load ==
    /\ pc = "idle"
    /\ config' \in Configs
    /\ path' = PyStr(<<"c", "o", "n", "f", "i", "g", "/">>)
    /\ op' = "load"
    /\ pc' = "prepare"
    /\ UNCHANGED <<self_vars, config_id, raw, data, _url, sent, res, result>>

add ==
    /\ pc = "idle"
    /\ config' \in Configs
    /\ path' \in Paths
    /\ config_id' \in ConfigIds
    /\ op' = "add"
    /\ pc' = "prepare"
    /\ UNCHANGED <<self_vars, raw, data, _url, sent, res, result>>

update ==
    /\ pc = "idle"
    /\ config' \in Configs
    /\ path' \in Paths
    /\ config_id' \in ConfigIds
    /\ op' = "update"
    /\ pc' = "prepare"
    /\ UNCHANGED <<self_vars, raw, data, _url, sent, res, result>>

stop ==
    /\ pc = "idle"
    /\ path' = PyStr(<<"s", "t", "o", "p">>)
    /\ op' = "stop"
    /\ pc' = "resolve"
    /\ UNCHANGED <<self_vars, config, config_id, raw, data, _url, sent, res,
                   result>>

delete ==
    /\ pc = "idle"
    /\ path' \in Paths
    /\ op' = "delete"
    /\ pc' = "resolve"
    /\ UNCHANGED <<self_vars, config, config_id, raw, data, _url, sent, res,
                   result>>

\* The mutant swallows the error and goes on with the config as given.
Prepare_mutant ==
    /\ pc = "prepare"
    /\ LET r == _prepare_config_data(config)
       IN  data' = IF r.kind = "raise" THEN config ELSE r.val
    /\ pc' = "resolve"
    /\ UNCHANGED <<self_vars, op, config, path, config_id, raw, _url, sent, res,
                   result>>

\* config = self._prepare_config_data(config), in load, add and update.
Prepare ==
    /\ pc = "prepare"
    /\ LET r == _prepare_config_data(config)
       IN  IF r.kind = "raise"
           THEN /\ result' = r
                /\ pc' = "done"
                /\ UNCHANGED data
           ELSE /\ data' = r.val
                /\ pc' = "resolve"
                /\ UNCHANGED result
    /\ UNCHANGED <<self_vars, op, config, path, config_id, raw, _url, sent, res>>

\* _url = self._generate_url_by_path(...)
Resolve ==
    /\ pc = "resolve"
    /\ _url' = _generate_url_by_path(path, config_id)
    /\ pc' = "execute"
    /\ UNCHANGED <<self_vars, op, config, path, config_id, raw, data, sent, res,
                   result>>

\* _execute: the headers, the body and requests.request(...).
Request ==
    /\ pc = "execute"
    /\ sent' = Append(sent, [method |-> Method(op), url |-> _url,
                             headers |-> Headers, data |-> RequestData(data)])
    /\ pc' = "waiting"
    /\ UNCHANGED <<self_vars, op, config, path, config_id, raw, data, _url, res,
                   result>>

\* The remote service answers.
Respond ==
    /\ pc = "waiting"
    /\ \E s \in Statuses, c \in Contents :
           res' = [status_code |-> s, content |-> c]
    /\ pc' = "responded"
    /\ UNCHANGED <<self_vars, op, config, path, config_id, raw, data, _url, sent,
                   result>>

\* The mutant leaves out raise_for_status.
Receive_mutant ==
    /\ pc = "responded"
    /\ IF op = "config"
       THEN /\ pc' = "decode"
            /\ UNCHANGED result
       ELSE /\ result' = Returns(res.content)
            /\ pc' = "done"
    /\ UNCHANGED <<self_vars, op, config, path, config_id, raw, data, _url, sent,
                   res>>

\* _execute: res.raise_for_status(); return res.content
Receive ==
    /\ pc = "responded"
    /\ IF raise_for_status(res)
       THEN /\ result' = Raises("HTTPError")
            /\ pc' = "done"
       ELSE IF op = "config"
       THEN /\ pc' = "decode"
            /\ UNCHANGED result
       ELSE /\ result' = Returns(res.content)
            /\ pc' = "done"
    /\ UNCHANGED <<self_vars, op, config, path, config_id, raw, data, _url, sent,
                   res>>

\* config: json.loads(res) unless raw, else res.
Decode ==
    /\ pc = "decode"
    /\ result' = IF ~raw THEN json_loads(res.content) ELSE Returns(res.content)
    /\ pc' = "done"
    /\ UNCHANGED <<self_vars, op, config, path, config_id, raw, data, _url, sent,
                   res>>

\* The call is over and its frame is gone; the client is as it was.
Finish ==
    /\ pc = "done"
    /\ pc' = "idle"
    /\ op' = "none"
    /\ config' = PyNone
    /\ path' = PyNone
    /\ config_id' = PyNone
    /\ raw' = FALSE
    /\ data' = PyNone
    /\ _url' = <<>>
    /\ sent' = <<>>
    /\ res' = NoResponse
    /\ result' = NoOutcome
    /\ UNCHANGED self_vars

Next ==
    \/ config_call
    \/ load
    \/ add
    \/ update
    \/ stop
    \/ delete
    \/ Prepare
    \/ Resolve
    \/ Request
    \/ Respond
    \/ Receive
    \/ Decode
    \/ Finish

Spec == Init /\ [][Next]_vars

(***************************************************************************)
(* What the claims speak of, written out independently of the operators    *)
(* above                                                                   *)
(***************************************************************************)
\* base = 'protocol://host:port/', with the port's digits written out.
PortText ==
    IF port = PyInt(2019) THEN <<"2", "0", "1", "9">> ELSE <<"8", "0">>

Base == protocol \o <<":", "/", "/">> \o host \o <<":">> \o PortText \o <<"/">>

ExampleClient ==
    protocol = http /\ host = example_com /\ port = PyInt(2019)

\* _generate_url_by_path has run in the call in progress.
Resolved == pc \in {"execute", "waiting", "responded", "decode"} \/ sent # <<>>

\* _prepare_config_data has returned in the call in progress.
BodyOps == {"load", "add", "update"}
Prepared ==
    /\ op \in BodyOps
    /\ pc \in {"resolve", "execute", "waiting", "responded"} \/ sent # <<>>

\* The number of '/' that s starts with.
LeadingSeparators(s) ==
    CHOOSE k \in 0..Len(s) :
        /\ \A i \in 1..k : s[i] = "/"
        /\ k = Len(s) \/ s[k + 1] # "/"

WithoutLeadingSeparators(s) == SubSeq(s, LeadingSeparators(s) + 1, Len(s))

WithoutOneLeadingSeparator(s) ==
    IF s # <<>> /\ s[1] = "/" THEN SubSeq(s, 2, Len(s)) ELSE s

(***************************************************************************)
(* C1: with path and identifier both absent (None or empty) the resolved   *)
(* target is base + 'config/'; config() without arguments on the client    *)
(* for http, example.com, 2019 sends its request to                        *)
(* 'http://example.com:2019/config/'.                                      *)
(***************************************************************************)
C1_RootTarget ==
    /\ (Resolved /\ ~Truthy(path) /\ ~Truthy(config_id))
           => _url = Base \o <<"c", "o", "n", "f", "i", "g", "/">>
    /\ (op = "config" /\ path = PyNone /\ config_id = PyNone /\ ExampleClient)
           => \A i \in 1..Len(sent) :
                  sent[i].url =
                      <<"h", "t", "t", "p", ":", "/", "/", "e", "x", "a",
                        "m", "p", "l", "e", ".", "c", "o", "m", ":", "2",
                        "0", "1", "9", "/", "c", "o", "n", "f", "i", "g",
                        "/">>

C1_Witness ==
    /\ op = "config" /\ path = PyNone /\ config_id = PyNone /\ ExampleClient
    /\ pc = "waiting"
    /\ Len(sent) = 1

(***************************************************************************)
(* C2: with a non-empty identifier the target is base + 'id/<identifier>'  *)
(* when path is absent, and base + 'id/<identifier>/' + path without its   *)
(* leading separators when path is non-empty; add(config, 'host/0',        *)
(* 'host') sends a PUT to base + 'id/host/host/0'.                         *)
(***************************************************************************)
IdTarget(stripped) ==
    Base \o <<"i", "d", "/">> \o config_id.v
        \o (IF Truthy(path) THEN <<"/">> \o stripped ELSE <<>>)

AddExample ==
    (op = "add" /\ path = PyStr(host_0)
        /\ config_id = PyStr(<<"h", "o", "s", "t">>))
        => \A i \in 1..Len(sent) :
               /\ sent[i].method = "PUT"
               /\ sent[i].url =
                      Base \o <<"i", "d", "/", "h", "o", "s", "t", "/", "h",
                                "o", "s", "t", "/", "0">>

\* As claimed: a single leading separator is stripped.
C2_SingleSeparatorStripped ==
    /\ (Resolved /\ Truthy(config_id))
           => _url = IdTarget(WithoutOneLeadingSeparator(path.v))
    /\ AddExample

\* As amended: every leading separator is stripped.
C2_IdTarget ==
    /\ (Resolved /\ Truthy(config_id))
           => _url = IdTarget(WithoutLeadingSeparators(path.v))
    /\ AddExample

C2_Witness ==
    /\ op = "add" /\ path = PyStr(<<"/", "/">>) /\ Truthy(config_id)
    /\ pc = "waiting"
    /\ sent[1].method = "PUT"

(***************************************************************************)
(* C3: with a non-empty path and no identifier the target is exactly       *)
(* base + path without its leading separators, nothing inserted between;   *)
(* stop() targets base + 'stop'.                                           *)
(***************************************************************************)
C3_PathTarget ==
    /\ (Resolved /\ Truthy(path) /\ ~Truthy(config_id))
           => _url = Base \o WithoutLeadingSeparators(path.v)
    /\ op = "stop"
           => \A i \in 1..Len(sent) :
                  sent[i].url = Base \o <<"s", "t", "o", "p">>

(***************************************************************************)
(* C4: load(config) sends a POST to the root configuration collection,     *)
(* base + 'config/', with the normalized config as the body handed to      *)
(* _execute.                                                               *)
(***************************************************************************)
C4_LoadTarget ==
    op = "load"
        => \A i \in 1..Len(sent) :
               /\ sent[i].method = "POST"
               /\ sent[i].url = Base \o <<"c", "o", "n", "f", "i", "g", "/">>
               /\ data = _prepare_config_data(config).val

(***************************************************************************)
(* C5: _prepare_config_data is idempotent: whenever it returned for the    *)
(* config given, applying it to what it returned returns that same value.  *)
(***************************************************************************)
C5_Idempotent ==
    Prepared
        => LET again == _prepare_config_data(data)
           IN  again.kind = "return" /\ PyEq(again.val, data)

\* The strings among the normalized values that are not JSON text, and the
\* one that is.
OpaqueTexts == {not_json, <<>>}
JsonTexts == {<<"1">>}

\* As amended: applying it again returns the same value when that value is a
\* mapping or a string that is not JSON text; it raises when the value is a
\* sequence, number, boolean or null; and it returns the parsed value, not
\* the string, when the value is a string that is itself JSON text.
C5_SecondNormalization ==
    Prepared
        => LET again == _prepare_config_data(data)
           IN  /\ data.t = "str" => data.v \in OpaqueTexts \cup JsonTexts
               /\ (data.t = "dict" \/ (data.t = "str" /\ data.v \in OpaqueTexts))
                      => again.kind = "return" /\ PyEq(again.val, data)
               /\ data.t \in {"list", "int", "bool", "NoneType"}
                      => again.kind = "raise"
               /\ (data.t = "str" /\ data.v = <<"1">>)
                      => again = Returns(PyInt(1))

C5_Witness ==
    /\ Prepared
    /\ config = PyStr(a_1_text)
    /\ data = a_1

(***************************************************************************)
(* C6: an input that is neither a mapping nor a string and that cannot be  *)
(* parsed as JSON (a number, a boolean, None, non-JSON bytes) makes        *)
(* _prepare_config_data raise JSONDecodeError; a string that cannot be     *)
(* parsed is returned unchanged.                                           *)
(***************************************************************************)
C6_DecodingError ==
    (op \in BodyOps /\ pc \notin {"idle", "prepare"})
        => /\ (config.t \in {"int", "bool", "NoneType"}
                   \/ config = PyBytes(not_json))
                  => pc = "done" /\ result = Raises("JSONDecodeError")
           /\ (config.t = "str" /\ config.v \in OpaqueTexts)
                  => Prepared /\ data = config

(***************************************************************************)
(* C7: config() with decoding requested (raw=False) returns the response   *)
(* bytes unchanged when the body of a successful response is not valid     *)
(* JSON, and the decoded value when it is.                                 *)
(***************************************************************************)
C7_DecodeFallback ==
    (op = "config" /\ pc = "done" /\ ~raw /\ res.status_code = 200)
        => /\ res.content = PyBytes(plain_text)
                  => result = Returns(PyBytes(plain_text))
           /\ res.content = PyBytes(a_1_text) => result = Returns(a_1)

(***************************************************************************)
(* C8: the body _execute puts on the wire is the JSON serialization of a   *)
(* structured body (mapping or parsed sequence), a string or bytes body    *)
(* unchanged ('not json' is sent as exactly 'not json'), and no body when  *)
(* none was given.                                                         *)
(***************************************************************************)
\* The JSON text of the mappings among the configurations.
MappingText(d) == IF d = a_1 THEN PyStr(a_1_text) ELSE PyStr(<<"{", "}">>)

C8_StringUnchanged ==
    \A i \in 1..Len(sent) :
        /\ data.t = "dict" => sent[i].data = MappingText(data)
        /\ data = PyList(<<PyInt(1)>>) => sent[i].data = PyStr(<<"[", "1", "]">>)
        /\ data.t \in {"str", "bytes"} => sent[i].data = data
        /\ data = PyNone => sent[i].data = PyNone

\* As amended: a mapping or a string is sent as its JSON serialization (a
\* string without quotes or backslashes: itself between double quotes), and
\* any other body (a parsed sequence, number or boolean, or none) is handed
\* to the transport as it is.
C8_WireBody ==
    \A i \in 1..Len(sent) :
        /\ data.t = "dict" => sent[i].data = MappingText(data)
        /\ (data.t = "str" /\ \A k \in 1..Len(data.v) : data.v[k] \notin {"\"", "\\"})
               => sent[i].data = PyStr(<<"\"">> \o data.v \o <<"\"">>)
        /\ data.t \notin {"dict", "str"} => sent[i].data = data

C8_Witness ==
    /\ op = "add"
    /\ config = PyStr(not_json)
    /\ pc = "waiting"
    /\ sent[1].data =
           PyStr(<<"\"", "n", "o", "t", " ", "j", "s", "o", "n", "\"">>)

C10_NoRequestOnRejectedPayload ==
    (op \in BodyOps /\ _prepare_config_data(config).kind = "raise")
        => /\ sent = <<>>
           /\ pc \in {"prepare", "done"}
           /\ pc = "done" => result = _prepare_config_data(config)

C10_Witness ==
    /\ op = "load"
    /\ config = PyInt(5)
    /\ pc = "done"
    /\ result.kind = "raise"
    /\ sent = <<>>

====
